---- MODULE Spec2Model ----
(***************************************************************************)
(* A model of sync/projectutil.py: the Command proxy (get, __getattr__),   *)
(* its Mach specialization (cache cleanup around get) and the mock type    *)
(* made by create_mock (class-level _data and _log).                       *)
(*                                                                         *)
(* Names of attributes and subcommand tokens are sequences of one-letter   *)
(* strings, so that endswith("_"), name[:-1] and replace("_", "-") are     *)
(* computed character by character, as the code computes them.             *)
(*                                                                         *)
(* The external collaborators are modelled by their boundary behaviour:    *)
(* subprocess.check_output returns the output, raises CalledProcessError   *)
(* (nonzero exit) or raises OSError (the executable or the working         *)
(* directory cannot be used); newrelic.agent.record_exception records and  *)
(* returns; os.path.exists answers for the cache directory; shutil.rmtree  *)
(* removes it. Assertions are enabled, and the callables a test registers  *)
(* with set_data return a value.                                           *)
(*                                                                         *)
(* Proxy instances share no state, so Spec follows one instance, of any of *)
(* the four classes; SpecMock follows the classes made by create_mock and  *)
(* their instances.                                                        *)
(***************************************************************************)
EXTENDS Integers, Sequences, FiniteSets, TLC

VARIABLES
    cls,          \* class of the proxy instance under observation
    dict,         \* the instance's __dict__: attribute name -> value
    cacheExists,  \* whether ~/.mozbuild/cache/wpt exists on disk
    nextId,       \* number of bound-method objects made so far (object identity)
    handed,       \* attribute name -> identities that accesses to it have returned
    last,         \* what the last operation on the proxy did and gave its caller
    mockTypes,    \* the classes made by create_mock: name, _data, _log
    mockInsts,    \* the constructed mock instances: their class and path
    lastMock,     \* what the last operation on a mock did and gave its caller
    scripted,     \* history: per mock class, what set_data was last called with on it
    calls         \* history: the mock invocations that returned, in call order

proxyVars == <<cls, dict, cacheExists, nextId, handed, last>>
mockVars == <<mockTypes, mockInsts, lastMock, scripted, calls>>
vars == <<cls, dict, cacheExists, nextId, handed, last,
          mockTypes, mockInsts, lastMock, scripted, calls>>

----------------------------------------------------------------------------
(* Bounds *)

\* bound-method objects that __getattr__ may make in one run of the model
MaxObjs == 2

----------------------------------------------------------------------------
(* Spellings *)

n_name == <<"n", "a", "m", "e">>
n_path == <<"p", "a", "t", "h">>
n_logger == <<"l", "o", "g", "g", "e", "r">>
n_get == <<"g", "e", "t">>
n_wpt_cache == <<"w", "p", "t", "_", "c", "a", "c", "h", "e">>
n_find_url == <<"f", "i", "n", "d", "_", "u", "r", "l">>

a_list_ == <<"l", "i", "s", "t", "_">>
a_test_info == <<"t", "e", "s", "t", "_", "i", "n", "f", "o">>
a_name_ == <<"n", "a", "m", "e", "_">>
a_path_ == <<"p", "a", "t", "h", "_">>
a_get_ == <<"g", "e", "t", "_">>
a_x__ == <<"x", "_", "_">>

t_list == <<"l", "i", "s", "t">>
t_status == <<"s", "t", "a", "t", "u", "s">>
t_flag == <<"-", "v">>

\* the attribute names a caller accesses dynamically
DynNames == {a_list_, a_test_info, a_name_, a_path_, a_get_, a_x__}

\* the calls a caller makes of get: positional arguments and keyword options
\* (the options are opaque to the proxy)
GetCalls ==
    {[args |-> <<>>, opts |-> "none"],
     [args |-> <<t_status>>, opts |-> "none"],
     [args |-> <<t_status, t_flag>>, opts |-> "stderr=STDOUT"]}

\* the calls a caller makes of a resolved callable
DynCalls ==
    {[args |-> <<>>, opts |-> "none"],
     [args |-> <<t_flag>>, opts |-> "stderr=STDOUT"]}

Classes == {"Command", "Mach", "WPT", "MozPhab"}

RootPath == "/repo"

CachePath == "~/.mozbuild/cache/wpt"

----------------------------------------------------------------------------
(* Values held in an instance __dict__ *)

StrVal(s) == [kind |-> "str", text |-> s, fn |-> <<>>, id |-> 0]

LoggerVal == [kind |-> "logger", text |-> "", fn |-> <<>>, id |-> 0]

\* types.MethodType(call, self, self.__class__), call closing over name
BoundCall(name, id) == [kind |-> "call", text |-> "", fn |-> name, id |-> id]

\* a function found on the class (bound on access, not stored in __dict__)
ClassMethod(name) == [kind |-> "classmethod", text |-> "", fn |-> name, id |-> 0]

Missing == [kind |-> "missing", text |-> "", fn |-> <<>>, id |-> 0]

----------------------------------------------------------------------------
(* Construction *)

CommandInit(name, path) ==
    (n_name :> StrVal(name)) @@ (n_path :> StrVal(path)) @@ (n_logger :> LoggerVal)

MachInit(path) ==
    (n_wpt_cache :> StrVal(CachePath)) @@ CommandInit("mach", path)

WPTInit(path) == CommandInit("wpt", path)

MozPhabInit(path) == CommandInit("moz-phab", path)

Construct(c, path) ==
    CASE c = "Command" -> CommandInit("git", path)
      [] c = "Mach" -> MachInit(path)
      [] c = "WPT" -> WPTInit(path)
      [] c = "MozPhab" -> MozPhabInit(path)

\* the functions defined on the class of an instance
ClassAttrs(c) == IF c = "MozPhab" THEN {n_get, n_find_url} ELSE {n_get}

----------------------------------------------------------------------------
(* Outcomes, errors and the steps a call takes *)

NoErr == [type |-> "none", code |-> 0, output |-> ""]

Return(v) == [kind |-> "return", value |-> v, err |-> NoErr]

Raise(e) == [kind |-> "raise", value |-> "", err |-> e]

AssertionError == [type |-> "AssertionError", code |-> 0, output |-> ""]

AttributeError == [type |-> "AttributeError", code |-> 0, output |-> ""]

RecursionError == [type |-> "RuntimeError", code |-> 0, output |-> ""]

\* the ways one run of the subprocess can end
ExecResults ==
    [res : {"ok"}, code : {0}, out : {" out\n"}]
        \cup [res : {"nonzero"}, code : {1, 2}, out : {"partial"}]
        \cup [res : {"oserror"}, code : {2}, out : {""}]

\* the error check_output raises for a result
ExecError(x) ==
    IF x.res = "nonzero"
    THEN [type |-> "CalledProcessError", code |-> x.code, output |-> x.out]
    ELSE [type |-> "OSError", code |-> x.code, output |-> ""]

Enter(f) == [ev |-> "enter", fn |-> f]

ExecEv(exe, argv, cwd, opts) ==
    [ev |-> "exec", exe |-> exe, argv |-> argv, cwd |-> cwd, opts |-> opts]

TelemetryEv(params) == [ev |-> "telemetry", params |-> params]

ExistsEv(p, b) == [ev |-> "exists", path |-> p, found |-> b]

RmtreeEv(p) == [ev |-> "rmtree", path |-> p]

\* what a call of get gives: how it ended and the steps it took
Out(o, t) == [outcome |-> o, trace |-> t]

\* the same, with the state of the cache directory when the call ends
Result(o, t, c) == [outcome |-> o, trace |-> t, cache |-> c]

----------------------------------------------------------------------------
(* Command.get *)

\* os.path.join(self.path, self.name): both must be strings
CanJoin(d) == d[n_path].kind = "str" /\ d[n_name].kind = "str"

PathJoin(d) == <<d[n_path].text, d[n_name].text>>

\* a variant of the except clause that raises without recording
RaiseWithoutReport(d, x, ran) == Out(Raise(ExecError(x)), ran)

\* the except clause of Command.get: record the failure, then raise e
ReportAndRaise(d, x, ran) ==
    Out(Raise(ExecError(x)),
        ran \o <<TelemetryEv([command |-> d[n_name].text,
                              exit_code |-> x.code,
                              command_output |-> x.out])>>)

\* a variant of the call that answers an OS-level error with empty output
CheckOutputSwallowOSError(d, subcommand, opts, x) ==
    LET ran == <<ExecEv(PathJoin(d), subcommand, d[n_path].text, opts)>>
    IN  CASE x.res = "ok" -> Out(Return(x.out), ran)
          [] x.res = "nonzero" -> ReportAndRaise(d, x, ran)
          [] OTHER -> Out(Return(""), ran)

\* subprocess.check_output(command, cwd=self.path, **opts) inside try/except
CheckOutput(d, subcommand, opts, x) ==
    LET ran == <<ExecEv(PathJoin(d), subcommand, d[n_path].text, opts)>>
    IN  CASE x.res = "ok" -> Out(Return(x.out), ran)
          [] x.res = "nonzero" -> ReportAndRaise(d, x, ran)
          [] OTHER -> Out(Raise(ExecError(x)), ran)

\* a variant of Command.get without the assert on subcommand
CommandGetNoAssert(d, subcommand, opts, x) ==
    LET r == IF ~CanJoin(d)
             THEN Out(Raise(AttributeError), <<>>)
             ELSE CheckOutput(d, subcommand, opts, x)
    IN  [r EXCEPT !.trace = <<Enter("Command.get")>> \o @]

\* Command.get(self, *subcommand, **opts)
CommandGet(d, subcommand, opts, x) ==
    LET r == IF Len(subcommand) = 0
             THEN Out(Raise(AssertionError), <<>>)
             ELSE IF ~CanJoin(d)
             THEN Out(Raise(AttributeError), <<>>)
             ELSE CheckOutput(d, subcommand, opts, x)
    IN  [r EXCEPT !.trace = <<Enter("Command.get")>> \o @]

\* whether the trace of a call shows a subprocess that ran to its end
Ran(trace, x) ==
    x.res # "oserror" /\ \E k \in 1..Len(trace) : trace[k].ev = "exec"

----------------------------------------------------------------------------
(* Mach.get *)

\* the finally clause: if os.path.exists(self.wpt_cache): shutil.rmtree(...)
Cleanup(d, present) ==
    IF present
    THEN [trace |-> <<ExistsEv(d[n_wpt_cache].text, TRUE),
                      RmtreeEv(d[n_wpt_cache].text)>>,
          cache |-> FALSE]
    ELSE [trace |-> <<ExistsEv(d[n_wpt_cache].text, FALSE)>>, cache |-> present]

\* a variant of Mach.get that cleans up after the call instead of in finally
MachGetNoFinally(d, subcommand, opts, x, creates, cache) ==
    LET r == CommandGet(d, subcommand, opts, x)
        present == cache \/ (creates /\ Ran(r.trace, x))
        fin == IF r.outcome.kind = "return"
               THEN Cleanup(d, present)
               ELSE [trace |-> <<>>, cache |-> present]
    IN  Result(r.outcome, <<Enter("Mach.get")>> \o r.trace \o fin.trace, fin.cache)

\* Mach.get(self, *subcommand, **opts): super().get in try, cleanup in finally.
\* creates: whether the subprocess, if it ran, left the cache directory behind.
MachGet(d, subcommand, opts, x, creates, cache) ==
    LET r == CommandGet(d, subcommand, opts, x)
        present == cache \/ (creates /\ Ran(r.trace, x))
        fin == Cleanup(d, present)
    IN  Result(r.outcome, <<Enter("Mach.get")>> \o r.trace \o fin.trace, fin.cache)

----------------------------------------------------------------------------
(* Attribute lookup and Command.__getattr__ *)

\* name.endswith("_")
EndsWithUnderscore(name) == Len(name) > 0 /\ name[Len(name)] = "_"

\* a variant of the first two lines of __getattr__ that keeps the underscore
KeepTrailing(name) == name

\* if name.endswith("_"): name = name[:-1]
StripTrailing(name) ==
    IF EndsWithUnderscore(name) THEN SubSeq(name, 1, Len(name) - 1) ELSE name

\* name.replace("_", "-")
Hyphenate(name) == [k \in 1..Len(name) |-> IF name[k] = "_" THEN "-" ELSE name[k]]

\* normal attribute lookup: the instance __dict__, then the class
Lookup(d, c, attr) ==
    IF attr \in DOMAIN d THEN d[attr]
    ELSE IF attr \in ClassAttrs(c) THEN ClassMethod(attr)
    ELSE Missing

\* the __dict__ key under which __getattr__ stores the callable it makes
CacheKey(attr) == StripTrailing(attr)

\* Command.__getattr__(self, name): the new __dict__
GetattrDict(d, attr, id) ==
    LET key == CacheKey(attr)
        made == BoundCall(StripTrailing(attr), id)
    IN  [k \in DOMAIN d \cup {key} |-> IF k = key THEN made ELSE d[k]]

\* self.get(...) as the interpreter resolves it on the instance.
\* A callable stored under "get" is the closure call, which calls self.get
\* again: the recursion ends in RuntimeError (maximum recursion depth).
Invoke(d, c, subcommand, opts, x, creates, cache) ==
    IF Lookup(d, c, n_get).kind = "call"
    THEN Result(Raise(RecursionError), <<Enter("call")>>, cache)
    ELSE IF c = "Mach"
    THEN MachGet(d, subcommand, opts, x, creates, cache)
    ELSE LET r == CommandGet(d, subcommand, opts, x)
         IN  Result(r.outcome, r.trace, cache \/ (creates /\ Ran(r.trace, x)))

\* call(self, *args, **kwargs): self.get(name.replace("_", "-"), *args, **kwargs)
Call(d, c, name, args, opts, x, creates, cache) ==
    LET r == Invoke(d, c, <<Hyphenate(name)>> \o args, opts, x, creates, cache)
    IN  [r EXCEPT !.trace = <<Enter("call")>> \o @]

----------------------------------------------------------------------------
(* The proxy's operations *)

NoEnv == [res |-> "none", code |-> 0, out |-> ""]

NoLast ==
    [op |-> "init", attr |-> <<>>, args |-> <<>>, opts |-> "none", env |-> NoEnv,
     creates |-> FALSE, before |-> FALSE, ret |-> Missing,
     outcome |-> Return(""), trace |-> <<>>]

\* the subprocess leaves the cache directory behind only when it is mach
Creates(c) == IF c = "Mach" THEN BOOLEAN ELSE {FALSE}

InitProxy ==
    /\ cls \in Classes
    /\ dict = Construct(cls, RootPath)
    /\ cacheExists \in Creates(cls)
    /\ nextId = 0
    /\ handed = [a \in DynNames |-> {}]
    /\ last = NoLast

\* the caller's self.get(*args, **opts)
Get(args, opts, x, creates) ==
    LET r == Invoke(dict, cls, args, opts, x, creates, cacheExists)
    IN  /\ last' = [op |-> "get", attr |-> <<>>, args |-> args, opts |-> opts,
                    env |-> x, creates |-> creates, before |-> cacheExists,
                    ret |-> Missing, outcome |-> r.outcome, trace |-> r.trace]
        /\ cacheExists' = r.cache
        /\ UNCHANGED <<cls, dict, nextId, handed, mockVars>>

\* the caller's self.<attr>: found normally, or made by __getattr__
GetAttr(attr) ==
    LET found == Lookup(dict, cls, attr)
        hit == found.kind # "missing"
        d2 == IF hit THEN dict ELSE GetattrDict(dict, attr, nextId + 1)
        ret == IF hit THEN found ELSE d2[CacheKey(attr)]
    IN  /\ hit \/ nextId < MaxObjs
        /\ dict' = d2
        /\ nextId' = IF hit THEN nextId ELSE nextId + 1
        /\ handed' = [handed EXCEPT ![attr] = @ \cup {ret.id}]
        /\ last' = [NoLast EXCEPT !.op = "getattr", !.attr = attr, !.ret = ret]
        /\ UNCHANGED <<cls, cacheExists, mockVars>>

\* the caller's self.<attr>(*args, **opts): the access, then the call
CallDyn(attr, args, opts, x, creates) ==
    LET found == Lookup(dict, cls, attr)
        hit == found.kind # "missing"
        d2 == IF hit THEN dict ELSE GetattrDict(dict, attr, nextId + 1)
        ret == IF hit THEN found ELSE d2[CacheKey(attr)]
        r == Call(d2, cls, ret.fn, args, opts, x, creates, cacheExists)
    IN  /\ hit \/ nextId < MaxObjs
        /\ ret.kind = "call"
        /\ dict' = d2
        /\ nextId' = IF hit THEN nextId ELSE nextId + 1
        /\ handed' = [handed EXCEPT ![attr] = @ \cup {ret.id}]
        /\ last' = [op |-> "dyncall", attr |-> attr, args |-> args, opts |-> opts,
                    env |-> x, creates |-> creates, before |-> cacheExists,
                    ret |-> ret, outcome |-> r.outcome, trace |-> r.trace]
        /\ cacheExists' = r.cache
        /\ UNCHANGED <<cls, mockVars>>

NextProxy ==
    \/ \E c \in GetCalls, x \in ExecResults, creates \in Creates(cls) :
           Get(c.args, c.opts, x, creates)
    \/ \E attr \in DynNames : GetAttr(attr)
    \/ \E attr \in DynNames, c \in DynCalls, x \in ExecResults, creates \in Creates(cls) :
           CallDyn(attr, c.args, c.opts, x, creates)

----------------------------------------------------------------------------
(* create_mock: the mock classes and their instances *)

\* the tool names create_mock is called with
MockNames == {"git", "hg"}

\* the class objects create_mock can return, in the order it makes them
TypeIds == {1, 2}

\* the instances a test constructs, each with the path it is constructed with
InstIds == {"A", "B"}

InstPath == [i \in InstIds |-> IF i = "A" THEN "/a" ELSE "/b"]

\* the calls a test makes of a mock's get
MockCalls ==
    {[args |-> <<>>, kwargs |-> "none"],
     [args |-> <<"status">>, kwargs |-> "none"],
     [args |-> <<"export", "foo">>, kwargs |-> "rev=tip"]}

\* the subcommands a test scripts
MockCmds == {"export"}

Literal(s) == [kind |-> "literal", text |-> s]

Callable(f) == [kind |-> "callable", text |-> f]

\* the values a test registers: a literal, and lambda *a, **kw: "".join(a).upper()
MockValues == {Literal("ok"), Callable("upper")}

Upper(s) == IF s = "foo" THEN "FOO" ELSE s

\* data(*args[1:], **kwargs) for a registered callable
Apply(f, rest, kwargs) == IF Len(rest) = 0 THEN "" ELSE Upper(rest[1])

\* class MockCommand(Command): _data = {}; _log = []
NewMockType(name) == [name |-> name, data |-> <<>>, log |-> <<>>]

\* a variant in which _data and _log live at module level, shared by all classes
TableOfShared(t) == 1

\* the class whose _data and _log an access through class t reaches
TableOf(t) == t

\* MockCommand.__init__(self, path), name closed over by create_mock
MockInit(t, name, path) == [type |-> t, name |-> name, path |-> path]

\* cls._data[command] = value
DataSet(data, command, value) ==
    [k \in DOMAIN data \cup {command} |-> IF k = command THEN value ELSE data[k]]

\* self._data.get(args[0], "")
DataGet(data, key) == IF key \in DOMAIN data THEN data[key] ELSE Literal("")

\* a variant of the lookup that returns a registered callable without calling it
MockValueNoCall(data, args, kwargs) == DataGet(data, args[1]).text

\* MockCommand.get up to the return value: the lookup and the call of a callable
MockValue(data, args, kwargs) ==
    LET found == DataGet(data, args[1])
    IN  IF found.kind = "callable"
        THEN Apply(found.text, Tail(args), kwargs)
        ELSE found.text

\* the entry MockCommand.get appends
LogEntry(inst, args, kwargs, rv) ==
    [command |-> inst.name, cwd |-> inst.path, args |-> args, kwargs |-> kwargs,
     rv |-> rv]

\* a variant of the append that rebinds the log to the new entry alone
LogReplace(log, entry) == <<entry>>

\* self._log.append(entry)
LogAppend(log, entry) == Append(log, entry)

IndexError == [type |-> "IndexError", code |-> 0, output |-> ""]

NoInst == [type |-> 0, name |-> "", path |-> ""]

NoLastMock ==
    [op |-> "init", type |-> 0, inst |-> "", args |-> <<>>, kwargs |-> "none",
     outcome |-> Return(""), log |-> <<>>]

MockIdle ==
    /\ mockTypes = <<>>
    /\ mockInsts = [i \in InstIds |-> NoInst]
    /\ lastMock = NoLastMock
    /\ scripted = [t \in TypeIds |-> <<>>]
    /\ calls = <<>>

ProxyIdle ==
    /\ cls = "Command"
    /\ dict = Construct(cls, RootPath)
    /\ cacheExists = FALSE
    /\ nextId = 0
    /\ handed = [a \in DynNames |-> {}]
    /\ last = NoLast

\* entries the logs of all mock classes hold together
MaxLog == 2

TotalLog == IF Len(mockTypes) = 2 THEN Len(mockTypes[1].log) + Len(mockTypes[2].log)
            ELSE IF Len(mockTypes) = 1 THEN Len(mockTypes[1].log) ELSE 0

\* create_mock(name)
CreateMock(name) ==
    /\ Len(mockTypes) < Cardinality(TypeIds)
    /\ mockTypes' = Append(mockTypes, NewMockType(name))
    /\ lastMock' = [NoLastMock EXCEPT !.op = "create_mock", !.type = Len(mockTypes) + 1]
    /\ UNCHANGED <<mockInsts, scripted, calls, proxyVars>>

\* i = T(path) for a class T that create_mock returned
NewMock(i, t) ==
    /\ mockInsts[i] = NoInst
    /\ t \in 1..Len(mockTypes)
    /\ mockInsts' = [mockInsts EXCEPT ![i] = MockInit(t, mockTypes[t].name, InstPath[i])]
    /\ lastMock' = [NoLastMock EXCEPT !.op = "construct", !.type = t, !.inst = i]
    /\ UNCHANGED <<mockTypes, scripted, calls, proxyVars>>

\* T.set_data(command, value)
SetData(t, command, value) ==
    /\ t \in 1..Len(mockTypes)
    /\ mockTypes' = [mockTypes EXCEPT
                        ![TableOf(t)].data = DataSet(@, command, value)]
    /\ lastMock' = [NoLastMock EXCEPT !.op = "set_data", !.type = t,
                                      !.args = <<command, value.text>>]
    /\ scripted' = [scripted EXCEPT ![t] = DataSet(@, command, value)]
    /\ UNCHANGED <<mockInsts, calls, proxyVars>>

\* T.get_log()
GetLog(t) ==
    /\ t \in 1..Len(mockTypes)
    /\ lastMock' = [NoLastMock EXCEPT !.op = "get_log", !.type = t,
                                      !.log = mockTypes[TableOf(t)].log]
    /\ UNCHANGED <<mockTypes, mockInsts, scripted, calls, proxyVars>>

\* i.get(*args, **kwargs)
MockGet(i, args, kwargs) ==
    LET inst == mockInsts[i]
        t == TableOf(inst.type)
    IN  /\ inst # NoInst
        /\ IF Len(args) = 0
           THEN /\ lastMock' = [NoLastMock EXCEPT !.op = "get", !.type = inst.type,
                                   !.inst = i, !.args = args, !.kwargs = kwargs,
                                   !.outcome = Raise(IndexError)]
                /\ UNCHANGED <<mockTypes, calls>>
           ELSE LET rv == MockValue(mockTypes[t].data, args, kwargs)
                IN  /\ TotalLog < MaxLog
                    /\ mockTypes' = [mockTypes EXCEPT
                           ![t].log = LogAppend(@, LogEntry(inst, args, kwargs, rv))]
                    /\ lastMock' = [NoLastMock EXCEPT !.op = "get", !.type = inst.type,
                                       !.inst = i, !.args = args, !.kwargs = kwargs,
                                       !.outcome = Return(rv)]
                    /\ calls' = Append(calls, [inst |-> i, type |-> inst.type,
                                               args |-> args, kwargs |-> kwargs,
                                               rv |-> rv])
        /\ UNCHANGED <<mockInsts, scripted, proxyVars>>

NextMock ==
    \/ \E name \in MockNames : CreateMock(name)
    \/ \E i \in InstIds, t \in TypeIds : NewMock(i, t)
    \/ \E t \in TypeIds, command \in MockCmds, value \in MockValues :
           SetData(t, command, value)
    \/ \E t \in TypeIds : GetLog(t)
    \/ \E i \in InstIds, c \in MockCalls : MockGet(i, c.args, c.kwargs)

----------------------------------------------------------------------------
(* Specifications *)

Init == InitProxy /\ MockIdle

Next == NextProxy

\* one proxy instance of any class, under every sequence of its operations
Spec == Init /\ [][Next]_vars

InitMock == ProxyIdle /\ MockIdle

\* the mock classes and their instances, under every sequence of their operations
SpecMock == InitMock /\ [][NextMock]_vars

----------------------------------------------------------------------------
(* Reading the record of the last proxy operation *)

Indices(trace, kind) == {k \in 1..Len(trace) : trace[k].ev = kind}

Entered(f) ==
    \E k \in 1..Len(last.trace) : last.trace[k].ev = "enter" /\ last.trace[k].fn = f

Execs == Indices(last.trace, "exec")

Telemetry == Indices(last.trace, "telemetry")

\* the positional arguments with which get was entered in the last operation
PassedArgs ==
    IF last.op = "dyncall" THEN <<Hyphenate(last.ret.fn)>> \o last.args ELSE last.args

\* the attributes the instance was constructed with
AsConstructed == Construct(cls, RootPath)

----------------------------------------------------------------------------
(* Properties of the proxy, checked under Spec *)

\* C1: a call of Command.get with at least one argument whose subprocess exits
\* nonzero emits exactly one telemetry event, after the subprocess step, with
\* command = self.name, exit_code = the exit code and command_output = the
\* captured output, and the caller gets the CalledProcessError itself; when the
\* subprocess succeeds no event is emitted and the output is returned verbatim.
C1_FailureReportedThenRaised ==
    (Entered("Command.get") /\ Len(PassedArgs) >= 1 /\ Execs # {}) =>
        /\ last.env.res = "nonzero" =>
              /\ Cardinality(Telemetry) = 1
              /\ \A k \in Telemetry :
                    /\ \A e \in Execs : e < k
                    /\ last.trace[k].params =
                          [command |-> AsConstructed[n_name].text,
                           exit_code |-> last.env.code,
                           command_output |-> last.env.out]
              /\ last.outcome =
                    Raise([type |-> "CalledProcessError", code |-> last.env.code,
                           output |-> last.env.out])
        /\ last.env.res = "ok" =>
              /\ Telemetry = {}
              /\ last.outcome = Return(last.env.out)

C1_Witness ==
    /\ Entered("Command.get")
    /\ last.env.res = "nonzero"
    /\ last.env.code = 2
    /\ Cardinality(Telemetry) = 1
    /\ last.outcome.kind = "raise"

\* C2 as claimed: every failure of the process-execution step, a nonzero exit
\* and an OS-level execution error alike, is reported to telemetry exactly once
\* and then reaches the caller unchanged.
C2_EveryFailureReported ==
    (Entered("Command.get") /\ Execs # {} /\ last.env.res \in {"nonzero", "oserror"}) =>
        /\ Cardinality(Telemetry) = 1
        /\ last.outcome = Raise(ExecError(last.env))

\* C2 as amended: the process-execution step runs once per call (no retry) and
\* each of its failures reaches the caller unchanged (no recovery); a nonzero
\* exit is reported to telemetry exactly once, an OS-level execution error is
\* not reported at all.
C2_FailurePropagatedNonzeroReported ==
    (Entered("Command.get") /\ Execs # {}) =>
        /\ Cardinality(Execs) = 1
        /\ last.env.res = "nonzero" =>
              /\ Cardinality(Telemetry) = 1
              /\ last.outcome.kind = "raise"
              /\ last.outcome.err.type = "CalledProcessError"
              /\ last.outcome.err.code = last.env.code
              /\ last.outcome.err.output = last.env.out
        /\ last.env.res = "oserror" =>
              /\ Telemetry = {}
              /\ last.outcome.kind = "raise"
              /\ last.outcome.err.type = "OSError"
              /\ last.outcome.err.code = last.env.code

C2_Witness ==
    /\ Entered("Command.get")
    /\ Execs # {}
    /\ last.env.res = "oserror"
    /\ Telemetry = {}
    /\ last.outcome.kind = "raise"

\* whether the cache directory is on disk when the cleanup of the last call starts
PresentAtCleanup ==
    last.before \/ (last.creates /\ last.env.res \in {"ok", "nonzero"} /\ Execs # {})

\* C3: every call of Mach.get checks for the cache directory exactly once, after
\* the subprocess step; removes it exactly when it is there; ends with the
\* directory absent; and gives its caller what Command.get gave: the return
\* value on success, the same error on failure.
C3_CleanupAlwaysNeverMasks ==
    Entered("Mach.get") =>
        LET checks == Indices(last.trace, "exists")
            removals == Indices(last.trace, "rmtree")
        IN  /\ Cardinality(checks) = 1
            /\ \A c \in checks :
                  /\ \A e \in Execs \cup Telemetry : e < c
                  /\ last.trace[c].found = PresentAtCleanup
                  /\ \A r \in removals : c < r
            /\ Cardinality(removals) = IF PresentAtCleanup THEN 1 ELSE 0
            /\ ~cacheExists
            /\ last.outcome = CommandGet(dict, PassedArgs, last.opts, last.env).outcome
            /\ (Execs # {} /\ last.env.res = "ok") => last.outcome = Return(last.env.out)
            /\ (Execs # {} /\ last.env.res # "ok") =>
                  last.outcome.kind = "raise" /\ last.outcome.err.code = last.env.code

C3_Witness ==
    /\ Entered("Mach.get")
    /\ last.before
    /\ last.env.res = "nonzero"
    /\ Indices(last.trace, "rmtree") # {}
    /\ ~cacheExists
    /\ last.outcome.kind = "raise"
    /\ last.outcome.err.type = "CalledProcessError"

\* the subcommand an attribute name stands for: list_ is list, test_info is
\* test-info; one trailing underscore goes, the other underscores become hyphens
ClaimedToken(attr) ==
    CASE attr = a_list_ -> <<"l", "i", "s", "t">>
      [] attr = a_test_info -> <<"t", "e", "s", "t", "-", "i", "n", "f", "o">>
      [] attr = a_name_ -> <<"n", "a", "m", "e">>
      [] attr = a_path_ -> <<"p", "a", "t", "h">>
      [] attr = a_get_ -> <<"g", "e", "t">>
      [] attr = a_x__ -> <<"x", "-">>

\* the process invocations a trace shows, in order
Invocations(trace) == SelectSeq(trace, LAMBDA e : e.ev = "exec")

C5_SameCallableEveryAccess == \A attr \in DynNames : Cardinality(handed[attr]) <= 1

\* C6 as claimed: the instance keeps the attributes it was constructed with,
\* name and path among them, and no callable made by __getattr__ is stored over
\* an attribute of the instance or an operation of its class.
C6_ConstructedAttributesKept ==
    /\ \A k \in DOMAIN AsConstructed : k \in DOMAIN dict /\ dict[k] = AsConstructed[k]
    /\ \A k \in ClassAttrs(cls) : k \notin DOMAIN dict

\* C10: a call of Command.get with no positional argument, on any class, raises
\* AssertionError to the caller, starts no subprocess and emits no telemetry.
C10_NoArgumentsFailsFast ==
    (Entered("Command.get") /\ Len(PassedArgs) = 0) =>
        /\ last.outcome = Raise(AssertionError)
        /\ Execs = {}
        /\ Telemetry = {}

C10_Witness ==
    /\ cls = "Mach"
    /\ Entered("Mach.get")
    /\ Entered("Command.get")
    /\ Len(PassedArgs) = 0
    /\ last.outcome = Raise(AssertionError)

----------------------------------------------------------------------------
(* Properties of the mock, checked under SpecMock *)

\* the value a scripted table gives for a call: the registered literal, the
\* result of the registered callable on args[1:] and kwargs, or "" if none
Scripted(table, args, kwargs) ==
    IF args[1] \notin DOMAIN table THEN ""
    ELSE IF table[args[1]].kind = "callable"
    THEN Apply(table[args[1]].text, Tail(args), kwargs)
    ELSE table[args[1]].text

Types == 1..Len(mockTypes)

\* what one step must do, read from the record lastMock' of the step
C7_Step ==
    LET lm == lastMock'
    IN  IF lm.op = "get" /\ Len(lm.args) >= 1
        THEN LET t == mockInsts[lm.inst].type
                 v == Scripted(mockTypes[t].data, lm.args, lm.kwargs)
             IN  /\ lm.outcome = Return(v)
                 /\ mockTypes'[t].log =
                        Append(mockTypes[t].log,
                               [command |-> mockTypes[t].name, cwd |-> InstPath[lm.inst],
                                args |-> lm.args, kwargs |-> lm.kwargs, rv |-> v])
                 /\ \A u \in Types \ {t} : mockTypes'[u].log = mockTypes[u].log
        ELSE /\ \A u \in Types : mockTypes'[u].log = mockTypes[u].log
             /\ lm.op = "get_log" => lm.log = mockTypes[lm.type].log

\* C7: a mock get with at least one argument returns the value scripted for
\* args[0] ("" if none, the callable's result if callable) and appends exactly
\* one entry {command, cwd, args, kwargs, rv} at the end of its class's log; no
\* other operation changes a log, and get_log returns the log as it stands.
C7_MockGetLogsAndReturns == [][C7_Step]_vars

C7_Witness ==
    /\ lastMock.op = "get"
    /\ lastMock.args = <<"export", "foo">>
    /\ lastMock.outcome = Return("FOO")
    /\ \E t \in Types :
          /\ Len(mockTypes[t].log) = 2
          /\ mockTypes[t].log[1].rv = ""
          /\ mockTypes[t].log[1].args = <<"status">>
          /\ mockTypes[t].log[2].rv = "FOO"
          /\ mockTypes[t].log[2].kwargs = "rev=tip"

\* the invocations made through the instances of class t, in call order
CallsThrough(t) == SelectSeq(calls, LAMBDA c : c.type = t)

\* C8: for the instances of one mock class, whatever their paths: a run uses
\* the response last registered with set_data on the class, whichever instance
\* runs; and the class's log holds the runs made through all its instances, one
\* entry each, in the order the calls were made.
C8_SharedAcrossInstances ==
    /\ \A t \in Types :
          LET made == CallsThrough(t)
          IN  mockTypes[t].log =
                  [k \in 1..Len(made) |->
                      [command |-> mockTypes[t].name, cwd |-> InstPath[made[k].inst],
                       args |-> made[k].args, kwargs |-> made[k].kwargs,
                       rv |-> made[k].rv]]
    /\ (lastMock.op = "get" /\ Len(lastMock.args) >= 1) =>
          lastMock.outcome =
              Return(Scripted(scripted[lastMock.type], lastMock.args, lastMock.kwargs))

C8_Witness ==
    /\ mockInsts["A"].type = mockInsts["B"].type
    /\ mockInsts["A"] # NoInst
    /\ LET t == mockInsts["A"].type
       IN  /\ "export" \in DOMAIN scripted[t]
           /\ Len(mockTypes[t].log) = 2
           /\ mockTypes[t].log[1].cwd = "/b"
           /\ mockTypes[t].log[1].rv = "FOO"
           /\ mockTypes[t].log[2].cwd = "/a"
           /\ mockTypes[t].log[2].rv = "FOO"

\* C9 as claimed: two mock classes made for the same tool name share one
\* scripted table and one log.
C9_SharedPerToolName ==
    \A t, u \in Types :
        mockTypes[t].name = mockTypes[u].name =>
            /\ mockTypes[t].data = mockTypes[u].data
            /\ mockTypes[t].log = mockTypes[u].log

\* C9 as amended: the table and the log belong to the class one create_mock
\* call returned: an operation through one class leaves the table and the log
\* of every other class as they were, also of a class made for the same name.
C9_TablesPerClass ==
    [][\A t \in Types : t # lastMock'.type => mockTypes'[t] = mockTypes[t]]_vars

C9_Witness ==
    /\ Len(mockTypes) = 2
    /\ mockTypes[1].name = mockTypes[2].name
    /\ "export" \in DOMAIN mockTypes[1].data
    /\ mockTypes[1].data["export"] = Literal("ok")
    /\ mockTypes[1].log = <<>>
    /\ lastMock.op = "get"
    /\ lastMock.type = 2
    /\ lastMock.args = <<"export", "foo">>
    /\ lastMock.outcome = Return("")
    /\ Len(mockTypes[2].log) = 1

====
